---- MODULE Spec2Model ----
(***************************************************************************)
(* Output-parameter classification of nopcrat (src/src/analysis.rs).       *)
(* One function body (a control-flow graph of basic blocks) is analysed:   *)
(* the write collector, the backward reads-before-write fixpoint, the      *)
(* forward must-write fixpoint, the visit of the return terminators and    *)
(* the classification into must_writes / may_writes.                       *)
(***************************************************************************)
EXTENDS Integers, Sequences, FiniteSets, TLC

VARIABLES
    body,         \* the MIR body: statements and terminator of every block
    params,       \* sig.decl.inputs.len()
    pc,           \* position of analyze() in the current loop iteration
    run,          \* how many times the item loop has reached this function
    writes,       \* WriteVisitor.0, later restricted by retain
    read_entry,   \* entry sets of the ReadAnalysis engine (state at block end)
    read_dirty,   \* dirty queue of the ReadAnalysis engine
    read_iters,   \* number of blocks popped by the ReadAnalysis engine
    reads,        \* cursor value at the start of block 0
    write_entry,  \* entry sets of the WriteAnalysis engine (state at block start)
    write_dirty,  \* dirty queue of the WriteAnalysis engine
    write_iters,  \* number of blocks popped by the WriteAnalysis engine
    visit_stack,  \* worklist of the preorder traversal of visit_reachable_with
    visited,      \* blocks the traversal has already yielded
    ret,          \* ReturnVisitor.0 : Option<MustPlaceSet>
    must_writes,  \* printed must-write set
    may_writes,   \* printed may-write set
    prev,         \* what the previous analysis of the same function printed
    local_decls,  \* body.local_decls: the types of the locals 0 ..= params
    field_lists,  \* indexes whose aggregate field list has been printed
    must_self,    \* a MustPlaceSet, the receiver of join and of the transfer
    must_other,   \* a MustPlaceSet, the argument of join
    may_self,     \* a MayPlaceSet, the receiver of join and of the transfer
    may_other,    \* a MayPlaceSet, the argument of join
    assignment,   \* the statement whose transfer functions are applied
    changed       \* what the last joins returned

operands == << must_self, must_other, may_self, may_other, assignment, changed >>

vars == << body, params, pc, run, writes, read_entry, read_dirty, read_iters,
           reads, write_entry, write_dirty, write_iters, visit_stack, visited,
           ret, must_writes, may_writes, prev, local_decls, field_lists,
           must_self, must_other, may_self, may_other, assignment, changed >>

----------------------------------------------------------------------------
(* Bounds of the model *)

NumBlocks == 3     \* basic blocks of the body
MaxEdges == 3      \* control-flow edges of the body
MaxStmts == 2      \* assignments and calls of the body
MaxParams == 1     \* parameters of the function
MaxRuns == 2       \* times the item loop analyses the function

Blocks == 0 .. (NumBlocks - 1)
START_BLOCK == 0

----------------------------------------------------------------------------
(* Places, operands, rvalues, statements *)

Place(l, p) == [local |-> l, projection |-> p]

\* Place::is_indirect_first_projection: the first projection is a Deref
is_indirect_first_projection(place) ==
    /\ Len(place.projection) > 0
    /\ place.projection[1] = "Deref"

Deref1 == Place(1, << "Deref" >>)                  \* *_1
Deref1a == Place(1, << "Deref", "Field_a" >>)      \* (*_1).a
Deref0 == Place(0, << "Deref" >>)                  \* *_0
Local2 == Place(2, << >>)                          \* _2

Constant == [kind |-> "Constant", place |-> Local2]
Copy(place) == [kind |-> "Copy", place |-> place]

\* Operand::place : Some(place) for Copy/Move, None for Constant
OperandPlace(o) == IF o.kind = "Constant" THEN << >> ELSE << o.place >>

Use(o) == [kind |-> "Use", ops |-> << o >>]
CopyForDeref(place) == [kind |-> "CopyForDeref", ops |-> << Copy(place) >>]
BinaryOp(o1, o2) == [kind |-> "BinaryOp", ops |-> << o1, o2 >>]

RECURSIVE OperandPlaces(_)
OperandPlaces(os) ==
    IF os = << >> THEN << >>
    ELSE OperandPlace(Head(os)) \o OperandPlaces(Tail(os))

rvalue_to_places(rvalue) ==
    IF rvalue.kind \in {"Use", "Repeat", "Cast", "UnaryOp", "ShallowInitBox"}
    THEN OperandPlace(rvalue.ops[1])
    ELSE IF rvalue.kind \in {"BinaryOp", "CheckedBinaryOp"}
    THEN OperandPlace(rvalue.ops[1]) \o OperandPlace(rvalue.ops[2])
    ELSE IF rvalue.kind = "Aggregate"
    THEN OperandPlaces(rvalue.ops)
    ELSE IF rvalue.kind = "CopyForDeref"
    THEN << rvalue.ops[1].place >>
    ELSE << >>

Assign(place, rvalue) == [place |-> place, rvalue |-> rvalue]

\* The assignments a block may hold
StmtPool ==
    { Assign(Deref1, Use(Constant)),                          \* *_1 = c
      Assign(Deref1a, Use(Constant)),                         \* (*_1).a = c
      Assign(Local2, Use(Copy(Deref1))),                      \* _2 = *_1
      Assign(Deref1, BinaryOp(Copy(Deref1), Constant)),       \* *_1 = *_1 + c
      Assign(Deref0, Use(Constant)) }                         \* *_0 = c

----------------------------------------------------------------------------
(* Terminators and bodies *)

Return == [kind |-> "Return", targets |-> << >>]
Goto(t) == [kind |-> "Goto", targets |-> << t >>]
SwitchInt(t1, t2) == [kind |-> "SwitchInt", targets |-> << t1, t2 >>]
\* *_1 = f(copy *_1) -> t
Call(t) == [kind |-> "Call", targets |-> << t >>,
            destination |-> Deref1, args |-> << Copy(Deref1) >>]

Terminators ==
    { Return }
    \cup { Goto(t) : t \in Blocks }
    \cup { Call(t) : t \in Blocks }
    \cup { SwitchInt(e[1], e[2]) : e \in { d \in Blocks \X Blocks : d[1] # d[2] } }

RECURSIVE SumOver(_, _)
SumOver(f, S) ==
    IF S = {} THEN 0
    ELSE LET x == CHOOSE y \in S : TRUE
         IN f[x] + SumOver(f, S \ {x})

EdgeCount(term) == SumOver([b \in Blocks |-> Len(term[b].targets)], Blocks)
CallCount(term) == Cardinality({b \in Blocks : term[b].kind = "Call"})

TermAssignments ==
    { t : t \in { u \in [Blocks -> Terminators] : EdgeCount(u) <= MaxEdges } }

\* A placement is a list of (block, statement) pairs in block order
Placements ==
    { q : q \in UNION { { r \in [1 .. n -> Blocks \X StmtPool] :
                            \A i \in 1 .. (n - 1) : r[i][1] <= r[i + 1][1] } :
                        n \in 0 .. MaxStmts } }

RECURSIVE StmtsOf(_, _)
StmtsOf(q, b) ==
    IF q = << >> THEN << >>
    ELSE IF Head(q)[1] = b THEN << Head(q)[2] >> \o StmtsOf(Tail(q), b)
    ELSE StmtsOf(Tail(q), b)

\* bodies of at most MaxStmts assignments and calls, and at most MaxEdges edges
Bodies ==
    { [stmts |-> [b \in Blocks |-> StmtsOf(d[1], b)], term |-> d[2]] :
        d \in { e \in Placements \X TermAssignments :
                  Len(e[1]) + CallCount(e[2]) <= MaxStmts } }

Successors(b) == { body.term[b].targets[i] : i \in 1 .. Len(body.term[b].targets) }
Predecessors(b) == { p \in Blocks : b \in Successors(p) }

RECURSIVE ReachFrom(_)
ReachFrom(S) ==
    LET T == S \cup UNION { Successors(b) : b \in S }
    IN IF T = S THEN S ELSE ReachFrom(T)

\* blocks yielded by traversal::postorder / reverse_postorder / reachable
Reachable == ReachFrom({START_BLOCK})

----------------------------------------------------------------------------
(* WriteVisitor *)

RECURSIVE visit_assign(_, _)
visit_assign(acc, stmts) ==
    IF stmts = << >> THEN acc
    ELSE LET place == Head(stmts).place
         IN visit_assign(IF is_indirect_first_projection(place)
                         THEN acc \cup {place} ELSE acc, Tail(stmts))

RECURSIVE visit_body(_, _)
visit_body(acc, bs) ==
    IF bs = {} THEN acc
    ELSE LET b == CHOOSE x \in bs : TRUE
         IN visit_body(visit_assign(acc, body.stmts[b]), bs \ {b})

----------------------------------------------------------------------------
(* MayPlaceSet *)

MayBottom == {}

\* a join that reports a change whenever the other operand holds a place
MayJoinAlwaysChanged(self, other) ==
    [value |-> self \cup other, changed |-> other # {}]

\* join returns the new value of self and whether an insert succeeded
MayJoin(self, other) ==
    [value |-> self \cup other, changed |-> other \ self # {}]

MayGen(self, place) == self \cup {place}
MayKill(self, place) == self \ {place}

----------------------------------------------------------------------------
(* MustPlaceSet *)

All == [tag |-> "All", set |-> {}]
Set(s) == [tag |-> "Set", set |-> s]

MustBottom == All
MustTop == Set({})

None == [tag |-> "None", set |-> {}]
Some(x) == x

\* into_set : Option<HashSet>
into_set(self) == IF self.tag = "All" THEN None ELSE Some(self)

\* a join that replaces All silently, without reporting the change
MustJoinSilentReplace(self, other) ==
    IF other.tag = "All" THEN [value |-> self, changed |-> FALSE]
    ELSE IF self.tag = "All" THEN [value |-> other, changed |-> FALSE]
    ELSE LET s1 == { p \in self.set : p \in other.set }
         IN [value |-> Set(s1),
             changed |-> Cardinality(s1) < Cardinality(self.set)]

\* a join that unites concrete sets
MustJoinUnion(self, other) ==
    IF other.tag = "All" THEN [value |-> self, changed |-> FALSE]
    ELSE IF self.tag = "All" THEN [value |-> other, changed |-> TRUE]
    ELSE [value |-> Set(self.set \cup other.set), changed |-> FALSE]

\* a join that keeps the receiver when both operands are concrete
MustJoinLeftBiased(self, other) ==
    IF other.tag = "All" THEN [value |-> self, changed |-> FALSE]
    ELSE IF self.tag = "All" THEN [value |-> other, changed |-> TRUE]
    ELSE [value |-> self, changed |-> FALSE]

MustJoin(self, other) ==
    IF other.tag = "All" THEN [value |-> self, changed |-> FALSE]
    ELSE IF self.tag = "All" THEN [value |-> other, changed |-> TRUE]
    ELSE LET s1 == { p \in self.set : p \in other.set }
         IN [value |-> Set(s1),
             changed |-> Cardinality(s1) < Cardinality(self.set)]

\* a gen that turns All into the set of the one place
MustGenFromAll(self, place) ==
    IF self.tag = "Set" THEN Set(self.set \cup {place}) ELSE Set({place})

MustGen(self, place) ==
    IF self.tag = "Set" THEN Set(self.set \cup {place}) ELSE self

----------------------------------------------------------------------------
(* ReadAnalysis : backward, MayPlaceSet *)

RECURSIVE GenReads(_, _)
GenReads(state, places) ==
    IF places = << >> THEN state
    ELSE GenReads(IF is_indirect_first_projection(Head(places))
                  THEN MayGen(state, Head(places)) ELSE state, Tail(places))

\* the statement effect with gen and kill swapped: the places read first,
\* the place written removed last
ReadStatementEffectKillLast(state, statement) ==
    LET read == GenReads(state, rvalue_to_places(statement.rvalue))
    IN IF is_indirect_first_projection(statement.place)
       THEN MayKill(read, statement.place) ELSE read

\* the statement effect without the kill of the place written
ReadStatementEffectNoKill(state, statement) ==
    GenReads(state, rvalue_to_places(statement.rvalue))

ReadStatementEffect(state, statement) ==
    LET killed == IF is_indirect_first_projection(statement.place)
                  THEN MayKill(state, statement.place) ELSE state
    IN GenReads(killed, rvalue_to_places(statement.rvalue))

ReadTerminatorEffect(state, terminator) == state

\* ReadAnalysis::apply_call_return_effect
ReadCallReturnEffect(state, terminator) == state

\* what Backward::join_state_into_successors_of hands to a predecessor
ReadEdgeState(state, terminator) ==
    IF terminator.kind = "Call" THEN ReadCallReturnEffect(state, terminator)
    ELSE state

\* Backward::apply_effects_in_block: terminator first, statements in reverse
RECURSIVE ReadStatementsRev(_, _)
ReadStatementsRev(state, stmts) ==
    IF stmts = << >> THEN state
    ELSE ReadStatementsRev(ReadStatementEffect(state, stmts[Len(stmts)]),
                           SubSeq(stmts, 1, Len(stmts) - 1))

ReadBlockEffect(state, b) ==
    ReadStatementsRev(ReadTerminatorEffect(state, body.term[b]), body.stmts[b])

----------------------------------------------------------------------------
(* WriteAnalysis : forward, MustPlaceSet *)

\* a transfer that records every assigned place, dereference or not
WriteStatementEffectAnyPlace(state, statement) ==
    MustGen(state, statement.place)

WriteStatementEffect(state, statement) ==
    IF is_indirect_first_projection(statement.place)
    THEN MustGen(state, statement.place) ELSE state

WriteTerminatorEffect(state, terminator) == state

\* a call return effect that records the destination of the call as written
WriteCallReturnEffectGenDestination(state, terminator) ==
    MustGen(state, terminator.destination)

\* WriteAnalysis::apply_call_return_effect
WriteCallReturnEffect(state, terminator) == state

\* what Forward::join_state_into_successors_of hands to a successor
WriteEdgeState(state, terminator) ==
    IF terminator.kind = "Call" THEN WriteCallReturnEffect(state, terminator)
    ELSE state

RECURSIVE WriteStatements(_, _)
WriteStatements(state, stmts) ==
    IF stmts = << >> THEN state
    ELSE WriteStatements(WriteStatementEffect(state, Head(stmts)), Tail(stmts))

WriteBlockEffect(state, b) ==
    WriteTerminatorEffect(WriteStatements(state, body.stmts[b]), body.term[b])

----------------------------------------------------------------------------
(* Types of the local declarations *)

RawPtr(ty) == [kind |-> "RawPtr", ty |-> ty]       \* *mut ty
Ref(ty) == [kind |-> "Ref", ty |-> ty]             \* &mut ty
I32 == [kind |-> "Int", ty |-> "-"]                \* i32

Tys == { RawPtr("Struct"), RawPtr("Union"), RawPtr("Int"), Ref("Struct"), I32 }

\* Ty::ty_adt_def : Some(adt) for a struct, union or enum type
ty_adt_def(ty) == IF ty \in {"Struct", "Union", "Enum"} THEN << ty >> ELSE << >>

\* AdtDef::is_struct
is_struct(adt_def) == adt_def = << "Struct" >>

\* locals 0 ..= n that a body dereferences
DerefLocals(bd, n) ==
    { l \in 0 .. n :
        \E b \in Blocks :
            \/ \E i \in 1 .. Len(bd.stmts[b]) :
                  \/ /\ bd.stmts[b][i].place.local = l
                     /\ is_indirect_first_projection(bd.stmts[b][i].place)
                  \/ \E j \in 1 .. Len(bd.stmts[b][i].rvalue.ops) :
                        /\ bd.stmts[b][i].rvalue.ops[j].kind # "Constant"
                        /\ bd.stmts[b][i].rvalue.ops[j].place.local = l
            \/ bd.term[b].kind = "Call" /\ l = 1 }

\* the declarations a body type-checks under: a dereferenced local is a pointer
LocalDecls(bd, n) ==
    { d \in [0 .. n -> Tys] :
        \A l \in DerefLocals(bd, n) : d[l].kind \in {"RawPtr", "Ref"} }

----------------------------------------------------------------------------
(* analyze *)

NoResult == [status |-> "none", must |-> {}, may |-> {}]

\* no lattice operation under way
Idle ==
    /\ must_self = MustBottom
    /\ must_other = MustBottom
    /\ may_self = MayBottom
    /\ may_other = MayBottom
    /\ assignment = Assign(Local2, Use(Constant))
    /\ changed = << FALSE, FALSE >>

Init ==
    /\ body \in Bodies
    /\ params \in 0 .. MaxParams
    /\ local_decls = [i \in 0 .. params |-> RawPtr("Struct")]
    /\ field_lists = {}
    /\ Idle
    /\ pc = "collect"
    /\ run = 1
    /\ writes = {}
    /\ read_entry = [b \in Blocks |-> MayBottom]
    /\ read_dirty = {}
    /\ read_iters = 0
    /\ reads = {}
    /\ write_entry = [b \in Blocks |-> MustBottom]
    /\ write_dirty = {}
    /\ write_iters = 0
    /\ visit_stack = << >>
    /\ visited = {}
    /\ ret = None
    /\ must_writes = {}
    /\ may_writes = {}
    /\ prev = NoResult

\* WriteVisitor::new(); visitor.visit_body(body); ReadAnalysis.into_engine
CollectWrites ==
    /\ pc = "collect"
    /\ writes' = visit_body({}, Blocks)
    /\ read_entry' = [b \in Blocks |-> MayBottom]
    /\ read_dirty' = Reachable
    /\ read_iters' = 0
    /\ pc' = "read"
    /\ UNCHANGED << operands, local_decls, field_lists >>
    /\ UNCHANGED << body, params, run, reads, write_entry, write_dirty,
                    write_iters, visit_stack, visited, ret, must_writes,
                    may_writes, prev >>

\* one iteration of the engine's loop for ReadAnalysis
ReadIterate(b) ==
    /\ pc = "read"
    /\ b \in read_dirty
    /\ LET state == ReadBlockEffect(read_entry[b], b)
           joined == [p \in Blocks |->
                        IF p \in Predecessors(b)
                        THEN MayJoin(read_entry[p],
                                     ReadEdgeState(state, body.term[p]))
                        ELSE [value |-> read_entry[p], changed |-> FALSE]]
       IN /\ read_entry' = [p \in Blocks |-> joined[p].value]
          /\ read_dirty' = (read_dirty \ {b}) \cup { p \in Blocks : joined[p].changed }
    /\ read_iters' = read_iters + 1
    /\ UNCHANGED << operands, local_decls, field_lists >>
    /\ UNCHANGED << body, params, pc, run, writes, reads, write_entry,
                    write_dirty, write_iters, visit_stack, visited, ret,
                    must_writes, may_writes, prev >>

\* a retain that lets the return slot through
RetainWithReturnSlot(w, r) ==
    { place \in w : 0 <= place.local /\ place.local <= params /\ place \notin r }

\* a retain that forgets the reads
RetainIgnoringReads(w, r) ==
    { place \in w : 0 < place.local /\ place.local <= params }

\* cursor.seek_to_block_start(0); writes.retain(..); if writes.is_empty() continue;
\* WriteAnalysis.into_engine
Retain(w, r) ==
    { place \in w : 0 < place.local /\ place.local <= params /\ place \notin r }

SeekAndRetain ==
    /\ pc = "read"
    /\ read_dirty = {}
    /\ LET r == ReadBlockEffect(read_entry[START_BLOCK], START_BLOCK)
           w == Retain(writes, r)
       IN /\ reads' = r
          /\ writes' = w
          /\ IF w = {}
             THEN /\ pc' = "skipped"
                  /\ UNCHANGED << write_entry, write_dirty >>
             ELSE /\ pc' = "write"
                  /\ write_entry' = [b \in Blocks |->
                        IF b = START_BLOCK THEN MustTop ELSE MustBottom]
                  /\ write_dirty' = Reachable
    /\ write_iters' = 0
    /\ UNCHANGED << operands, local_decls, field_lists >>
    /\ UNCHANGED << body, params, run, read_entry, read_dirty, read_iters,
                    visit_stack, visited, ret, must_writes, may_writes, prev >>

\* one iteration of the engine's loop for WriteAnalysis
WriteIterate(b) ==
    /\ pc = "write"
    /\ b \in write_dirty
    /\ LET state == WriteBlockEffect(write_entry[b], b)
           joined == [t \in Blocks |->
                        IF t \in Successors(b)
                        THEN MustJoin(write_entry[t],
                                      WriteEdgeState(state, body.term[b]))
                        ELSE [value |-> write_entry[t], changed |-> FALSE]]
       IN /\ write_entry' = [t \in Blocks |-> joined[t].value]
          /\ write_dirty' = (write_dirty \ {b}) \cup { t \in Blocks : joined[t].changed }
    /\ write_iters' = write_iters + 1
    /\ UNCHANGED << operands, local_decls, field_lists >>
    /\ UNCHANGED << body, params, pc, run, writes, read_entry, read_dirty,
                    read_iters, reads, visit_stack, visited, ret,
                    must_writes, may_writes, prev >>

\* ReturnVisitor::new(); results.visit_reachable_with starts its preorder
StartVisit ==
    /\ pc = "write"
    /\ write_dirty = {}
    /\ visit_stack' = << START_BLOCK >>
    /\ visited' = {}
    /\ ret' = None
    /\ pc' = "visit"
    /\ UNCHANGED << operands, local_decls, field_lists >>
    /\ UNCHANGED << body, params, run, writes, read_entry, read_dirty,
                    read_iters, reads, write_entry, write_dirty, write_iters,
                    must_writes, may_writes, prev >>

\* a visitor that records the state at every terminator
visit_terminator_any_kind(self, state, terminator) == Some(state)

\* ReturnVisitor::visit_terminator_before_primary_effect
visit_terminator_before_primary_effect(self, state, terminator) ==
    IF terminator.kind = "Return" THEN Some(state) ELSE self

\* one pop of the preorder worklist, and the visit of the block it yields
VisitBlock ==
    /\ pc = "visit"
    /\ visit_stack # << >>
    /\ LET n == Len(visit_stack)
           b == visit_stack[n]
           rest == SubSeq(visit_stack, 1, n - 1)
       IN IF b \in visited
          THEN /\ visit_stack' = rest
               /\ UNCHANGED << visited, ret >>
          ELSE /\ visited' = visited \cup {b}
               /\ visit_stack' = rest \o body.term[b].targets
               /\ ret' = visit_terminator_before_primary_effect(
                            ret, WriteStatements(write_entry[b], body.stmts[b]),
                            body.term[b])
    /\ UNCHANGED << operands, local_decls, field_lists >>
    /\ UNCHANGED << body, params, pc, run, writes, read_entry, read_dirty,
                    read_iters, reads, write_entry, write_dirty, write_iters,
                    must_writes, may_writes, prev >>

\* the default taken from bottom() instead of top()
unwrap_or_else_bottom(opt) == IF opt = None THEN MustBottom ELSE opt

\* visitor.0.unwrap_or_else(MustPlaceSet::top)
unwrap_or_else_top(opt) == IF opt = None THEN MustTop ELSE opt

\* must_writes.retain(|place| writes.contains(place))
RetainMust(m, w) == { place \in m : place \in w }

\* may_writes without the retain
RetainMayAll(w, must) == w

\* may_writes = writes; may_writes.retain(|place| !must_writes.contains(place))
RetainMay(w, must) == { place \in w : place \notin must }

\* for (i, local) in body.local_decls.iter().enumerate(): the indexes up to
\* params whose type is a raw pointer to a struct
print_field_lists(decls, n) ==
    { i \in 0 .. n : decls[i].kind = "RawPtr" /\ ty_adt_def(decls[i].ty) # << >>
                       /\ is_struct(ty_adt_def(decls[i].ty)) }

\* visitor.0.unwrap_or_else(MustPlaceSet::top).into_set().unwrap(), the two
\* retains, the println and the loop over the local declarations
Classify ==
    /\ pc = "visit"
    /\ visit_stack = << >>
    /\ LET m == into_set(unwrap_or_else_top(ret))
       IN IF m = None
          THEN /\ pc' = "panic"
               /\ UNCHANGED << must_writes, may_writes, field_lists >>
          ELSE LET must == RetainMust(m.set, writes)
               IN /\ must_writes' = must
                  /\ may_writes' = RetainMay(writes, must)
                  /\ field_lists' = print_field_lists(local_decls, params)
                  /\ pc' = "reported"
    /\ UNCHANGED << operands, local_decls >>
    /\ UNCHANGED << body, params, run, writes, read_entry, read_dirty,
                    read_iters, reads, write_entry, write_dirty, write_iters,
                    visit_stack, visited, ret, prev >>

\* the item loop reaches the same, unmodified function once more
Reanalyze ==
    /\ pc \in {"reported", "skipped"}
    /\ run < MaxRuns
    /\ run' = run + 1
    /\ prev' = [status |-> pc, must |-> must_writes, may |-> may_writes]
    /\ pc' = "collect"
    /\ writes' = {}
    /\ reads' = {}
    /\ ret' = None
    /\ must_writes' = {}
    /\ may_writes' = {}
    /\ field_lists' = {}
    /\ UNCHANGED << operands, local_decls >>
    /\ UNCHANGED << body, params, read_entry, read_dirty, read_iters,
                    write_entry, write_dirty, write_iters, visit_stack, visited >>

Next ==
    \/ CollectWrites
    \/ \E b \in Blocks : ReadIterate(b)
    \/ SeekAndRetain
    \/ \E b \in Blocks : WriteIterate(b)
    \/ StartVisit
    \/ VisitBlock
    \/ Classify

Spec == Init /\ [][Next]_vars

\* The same function analysed MaxRuns times, on the bodies with an edge to spare
InitRerun ==
    /\ Init
    /\ EdgeCount(body.term) < MaxEdges

NextRerun ==
    \/ CollectWrites
    \/ \E b \in Blocks : ReadIterate(b)
    \/ SeekAndRetain
    \/ \E b \in Blocks : WriteIterate(b)
    \/ StartVisit
    \/ VisitBlock
    \/ Classify
    \/ Reanalyze

SpecRerun == InitRerun /\ [][NextRerun]_vars

\* The functions of few statements and edges, under every typing of the return
\* place and of the parameters
InitFields ==
    /\ body \in { bd \in Bodies :
                    EdgeCount(bd.term) + CallCount(bd.term)
                      + SumOver([b \in Blocks |-> Len(bd.stmts[b])], Blocks)
                      <= MaxStmts }
    /\ params \in 0 .. MaxParams
    /\ local_decls \in LocalDecls(body, params)
    /\ field_lists = {}
    /\ Idle
    /\ pc = "collect"
    /\ run = 1
    /\ writes = {}
    /\ read_entry = [b \in Blocks |-> MayBottom]
    /\ read_dirty = {}
    /\ read_iters = 0
    /\ reads = {}
    /\ write_entry = [b \in Blocks |-> MustBottom]
    /\ write_dirty = {}
    /\ write_iters = 0
    /\ visit_stack = << >>
    /\ visited = {}
    /\ ret = None
    /\ must_writes = {}
    /\ may_writes = {}
    /\ prev = NoResult

SpecFields == InitFields /\ [][Next]_vars

----------------------------------------------------------------------------
(* The lattice operations on their own *)

\* the dereference places of the statement pool
DerefPlaces == { Deref1, Deref1a, Deref0 }

MustValues == { All } \cup { Set(s) : s \in SUBSET DerefPlaces }
MayValues == SUBSET DerefPlaces

\* a body without statements, every block returning
EmptyBody == [stmts |-> [b \in Blocks |-> << >>], term |-> [b \in Blocks |-> Return]]

InitLattice ==
    /\ must_self \in MustValues
    /\ must_other \in MustValues
    /\ may_self \in MayValues
    /\ may_other \in MayValues
    /\ assignment \in StmtPool
    /\ changed = << FALSE, FALSE >>
    /\ pc = "lattice"
    /\ body = EmptyBody
    /\ params = 0
    /\ local_decls = [i \in 0 .. 0 |-> I32]
    /\ field_lists = {}
    /\ run = 1
    /\ writes = {}
    /\ read_entry = [b \in Blocks |-> MayBottom]
    /\ read_dirty = {}
    /\ read_iters = 0
    /\ reads = {}
    /\ write_entry = [b \in Blocks |-> MustBottom]
    /\ write_dirty = {}
    /\ write_iters = 0
    /\ visit_stack = << >>
    /\ visited = {}
    /\ ret = None
    /\ must_writes = {}
    /\ may_writes = {}
    /\ prev = NoResult

\* must_self.join(&must_other); may_self.join(&may_other)
Join ==
    /\ pc \in {"lattice", "joined", "applied"}
    /\ must_self' = MustJoin(must_self, must_other).value
    /\ may_self' = MayJoin(may_self, may_other).value
    /\ changed' = << MustJoin(must_self, must_other).changed,
                     MayJoin(may_self, may_other).changed >>
    /\ pc' = "joined"
    /\ UNCHANGED << must_other, may_other, assignment, local_decls, field_lists >>
    /\ UNCHANGED << body, params, run, writes, read_entry, read_dirty,
                    read_iters, reads, write_entry, write_dirty, write_iters,
                    visit_stack, visited, ret, must_writes, may_writes, prev >>

\* apply_statement_effect of both analyses, on both operands
ApplyStatementEffect ==
    /\ pc \in {"lattice", "joined", "applied"}
    /\ must_self' = WriteStatementEffect(must_self, assignment)
    /\ must_other' = WriteStatementEffect(must_other, assignment)
    /\ may_self' = ReadStatementEffect(may_self, assignment)
    /\ may_other' = ReadStatementEffect(may_other, assignment)
    /\ pc' = "applied"
    /\ UNCHANGED << assignment, changed, local_decls, field_lists >>
    /\ UNCHANGED << body, params, run, writes, read_entry, read_dirty,
                    read_iters, reads, write_entry, write_dirty, write_iters,
                    visit_stack, visited, ret, must_writes, may_writes, prev >>

NextLattice ==
    \/ Join
    \/ ApplyStatementEffect

SpecLattice == InitLattice /\ [][NextLattice]_vars

----------------------------------------------------------------------------
(* What the body does, read off the control-flow graph *)

Final == {"reported", "skipped", "panic"}

StmtIndexes == { d \in Blocks \X (1 .. MaxStmts) : d[2] <= Len(body.stmts[d[1]]) }
StmtAt(d) == body.stmts[d[1]][d[2]]

\* places the right-hand side of an assignment reads
RhsReads(stmt) ==
    { stmt.rvalue.ops[i].place :
        i \in { j \in 1 .. Len(stmt.rvalue.ops) : stmt.rvalue.ops[j].kind # "Constant" } }

\* dereference places assigned, and read, somewhere in the body
WrittenPlaces ==
    { pl \in { StmtAt(d).place : d \in StmtIndexes } : is_indirect_first_projection(pl) }
ReadPlaces ==
    { pl \in UNION { RhsReads(StmtAt(d)) : d \in StmtIndexes } :
        is_indirect_first_projection(pl) }
DistinctPlaces == WrittenPlaces \cup ReadPlaces

BlockWrites(b, pl) == \E i \in 1 .. Len(body.stmts[b]) : body.stmts[b][i].place = pl

\* blocks whose start is reached from the entry along a path that has not
\* assigned pl
RECURSIVE UnwrittenFrom(_, _)
UnwrittenFrom(S, pl) ==
    LET T == S \cup UNION { Successors(b) : b \in { c \in S : ~BlockWrites(c, pl) } }
    IN IF T = S THEN S ELSE UnwrittenFrom(T, pl)

Unwritten(pl) == UnwrittenFrom({START_BLOCK}, pl)

\* some path from the entry reads pl before any assignment on it has written pl
ReadBeforeWrite(pl) ==
    \E b \in Unwritten(pl) : \E i \in 1 .. Len(body.stmts[b]) :
        /\ pl \in RhsReads(body.stmts[b][i])
        /\ \A j \in 1 .. (i - 1) : body.stmts[b][j].place # pl

ReturnBlocks == { b \in Reachable : body.term[b].kind = "Return" }

\* some path from the entry assigns pl
WrittenOnSomePath(pl) == \E b \in Reachable : BlockWrites(b, pl)

\* every path from the entry to a return assigns pl
WrittenOnEveryPath(pl) ==
    \A b \in Unwritten(pl) : body.term[b].kind = "Return" => BlockWrites(b, pl)

\* the set the classifier partitions
W_restricted ==
    { pl \in WrittenPlaces : 1 <= pl.local /\ pl.local <= params /\ pl \notin reads }

\* Must-Write value before the terminator of block b
ReturnState(b) == WriteStatements(write_entry[b], body.stmts[b])

\* the combined must-write value the classifier uses
CombinedM == unwrap_or_else_top(ret)

HasCycle == \E b \in Reachable : b \in ReachFrom(Successors(b))

\* the Must-Write engine has emptied its queue
WriteFixpoint == pc \in {"visit", "reported"} \/ (pc = "write" /\ write_dirty = {})

\* Must-Write value after the first i statements of block b
PointState(b, i) == WriteStatements(write_entry[b], SubSeq(body.stmts[b], 1, i))

\* every path from the entry to the point after statement i of block b
\* assigns pl
WrittenOnEveryPathTo(b, i, pl) ==
    \/ b \notin Unwritten(pl)
    \/ \E j \in 1 .. i : body.stmts[b][j].place = pl

----------------------------------------------------------------------------
(* Claims *)

\* C1: for every reported function MustWrites is a subset of W_restricted,
\* MustWrites and MayWrites are disjoint and their union is W_restricted.
C1_PartitionLaw ==
    pc = "reported" =>
        /\ must_writes \subseteq W_restricted
        /\ must_writes \cap may_writes = {}
        /\ must_writes \cup may_writes = W_restricted

C1_Witness ==
    /\ pc = "reported"
    /\ must_writes # {}
    /\ may_writes # {}

\* C2: the combined must-write value the classifier uses is the intersection
\* of the Must-Write fixpoint values at every reachable return terminator,
\* and the empty set when no return is reachable.
C2_CombinedIsIntersection ==
    pc = "reported" =>
        /\ CombinedM.tag = "Set"
        /\ CombinedM.set =
             { pl \in DistinctPlaces :
                 ReturnBlocks # {} /\ \A b \in ReturnBlocks : pl \in ReturnState(b).set }

\* C3: a dereference place that some path from the entry reads before any
\* assignment on that path has written it is in neither MustWrites nor
\* MayWrites.
C3_ReadBeforeWriteExcluded ==
    pc = "reported" =>
        \A pl \in DistinctPlaces :
            ReadBeforeWrite(pl) => pl \notin must_writes \cup may_writes

C3_Witness ==
    /\ pc = "reported"
    /\ \E pl \in WrittenPlaces :
         /\ pl.local >= 1 /\ pl.local <= params
         /\ ReadBeforeWrite(pl)
         /\ BlockWrites(START_BLOCK, pl)

\* C4: every place in MayWrites is written on some path from the entry and
\* not on every path to every reachable return; conversely a parameter place
\* never read before written and written on some but not all entry-to-return
\* paths is in MayWrites and not in MustWrites.
C4_MayWritesExact ==
    pc = "reported" =>
        /\ \A pl \in may_writes : WrittenOnSomePath(pl) /\ ~WrittenOnEveryPath(pl)
        /\ \A pl \in WrittenPlaces :
             ( /\ 1 <= pl.local /\ pl.local <= params
               /\ ~ReadBeforeWrite(pl)
               /\ WrittenOnSomePath(pl)
               /\ ~WrittenOnEveryPath(pl) )
             => (pl \in may_writes /\ pl \notin must_writes)

\* C5 as claimed: each fixpoint converges within (blocks x distinct places)
\* iterations of the worklist.
C5_IterationsWithinBlocksTimesPlaces ==
    /\ read_iters <= NumBlocks * Cardinality(DistinctPlaces)
    /\ write_iters <= NumBlocks * Cardinality(DistinctPlaces)

\* C5 amended: each fixpoint, loops included, stops within
\* blocks x (distinct places + 2) iterations of the worklist.
C5_IterationsBounded ==
    /\ read_iters <= NumBlocks * (Cardinality(DistinctPlaces) + 2)
    /\ write_iters <= NumBlocks * (Cardinality(DistinctPlaces) + 2)

C5_Witness ==
    /\ pc = "reported"
    /\ HasCycle
    /\ read_iters > Cardinality(Reachable)
    /\ write_iters > Cardinality(Reachable)

\* C6: analysing the same unmodified function again, under any worklist
\* order, ends the same way with identical MustWrites and MayWrites.
C6_RerunIdentical ==
    (run > 1 /\ pc \in Final) =>
        prev = [status |-> pc, must |-> must_writes, may |-> may_writes]

C6_Witness ==
    /\ run > 1
    /\ pc = "reported"
    /\ prev.status = "reported"
    /\ must_writes # {}
    /\ may_writes # {}

\* C7: the classifier never raises and always completes: the value taken at
\* a return site converts to a concrete set, and analyze is never stuck
\* before the function is reported or skipped.
C7_Total ==
    /\ pc # "panic"
    /\ pc = "visit" => into_set(unwrap_or_else_top(ret)) # None
    /\ pc \notin Final => ENABLED Next

C7_Witness ==
    /\ pc = "reported"
    /\ ReturnBlocks = {}
    /\ Reachable # Blocks
    /\ HasCycle

\* C8 as claimed: with no reachable return nothing is reported in MustWrites
\* or MayWrites.
C8_NoReturnNothingReported ==
    ReturnBlocks = {} => (must_writes = {} /\ may_writes = {})

\* C8 amended: with no reachable return MustWrites is empty and every place
\* of W_restricted is reported in MayWrites.
C8_NoReturnAllMay ==
    (pc = "reported" /\ ReturnBlocks = {}) =>
        /\ must_writes = {}
        /\ may_writes = W_restricted
        /\ may_writes # {}

C8_Witness ==
    /\ pc = "reported"
    /\ ReturnBlocks = {}
    /\ Cardinality(may_writes) > 1

\* C9: a function is reported iff its restricted write set is non-empty; a
\* function without parameters, or writing only through the return slot or
\* through locals that are not parameters, is never reported.
C9_ReportedIffRestrictedNonEmpty ==
    /\ pc \in {"write", "visit", "reported"} => W_restricted # {}
    /\ pc = "skipped" => W_restricted = {}
    /\ (params = 0 \/ \A pl \in WrittenPlaces : pl.local = 0 \/ pl.local > params)
         => pc \notin {"write", "visit", "reported", "panic"}

C9_Witness ==
    /\ pc = "skipped"
    /\ params >= 1
    /\ WrittenPlaces = {Deref0}
    /\ reads = {}

InClass(pl, c) ==
    IF c = "excluded" THEN pl \in reads
    ELSE IF c = "must" THEN pl \in must_writes
    ELSE pl \in may_writes

C11_FieldListsOnlyForCandidates ==
    pc = "reported" =>
        \A i \in field_lists :
            /\ 1 <= i /\ i <= params
            /\ local_decls[i].kind \in {"RawPtr", "Ref"}
            /\ ty_adt_def(local_decls[i].ty) # << >>
            /\ \E pl \in must_writes \cup may_writes : pl.local = i

\* C12: at the Must-Write fixpoint the value at each program point of a block
\* reachable from the entry is the set of dereference places assigned on
\* every path from the function entry to that point, loops included.
C12_MustWriteIsEveryPath ==
    WriteFixpoint =>
        \A b \in Reachable : \A i \in 0 .. Len(body.stmts[b]) :
            /\ PointState(b, i).tag = "Set"
            /\ PointState(b, i).set =
                 { pl \in WrittenPlaces : WrittenOnEveryPathTo(b, i, pl) }

C12_Witness ==
    /\ pc = "reported"
    /\ HasCycle
    /\ \E b \in Reachable : \E pl \in WrittenPlaces :
         /\ write_entry[b].set # {}
         /\ pl \notin write_entry[b].set
         /\ \E p \in Predecessors(b) \cap Reachable :
              pl \in PointState(p, Len(body.stmts[p])).set

\* C13: a place is in the Reads-Before-Write value at the function entry only
\* if some path from the entry has an assignment whose right-hand side reads
\* it with no earlier assignment on that path writing it; a written parameter
\* place whose every read is preceded on every path by a write to it stays
\* in W_restricted.
C13_ReadsOnlyWhatIsReadFirst ==
    pc \in {"write", "visit", "reported", "skipped"} =>
        /\ \A pl \in reads : ReadBeforeWrite(pl)
        /\ \A pl \in WrittenPlaces :
             (1 <= pl.local /\ pl.local <= params /\ ~ReadBeforeWrite(pl))
             => (pl \in writes /\ pl \in W_restricted)

C13_Witness ==
    /\ pc = "reported"
    /\ HasCycle
    /\ \E pl \in writes : pl \in ReadPlaces /\ ~ReadBeforeWrite(pl)

\* C14: in both analyses a terminator leaves the dataflow state unchanged:
\* the state handed along each edge is the state before the terminator, and
\* a call whose destination is, or whose arguments read, a dereference place
\* adds no place to and removes none from the Reads-Before-Write set, the
\* Must-Write set or the collected write set.
C14_TerminatorsKeepState ==
    /\ pc = "read" => writes = WrittenPlaces
    /\ \A b \in Blocks :
         /\ ReadTerminatorEffect(read_entry[b], body.term[b]) = read_entry[b]
         /\ ReadEdgeState(read_entry[b], body.term[b]) = read_entry[b]
         /\ WriteTerminatorEffect(ReturnState(b), body.term[b]) = ReturnState(b)
         /\ WriteEdgeState(ReturnState(b), body.term[b]) = ReturnState(b)
    /\ (pc \in {"write", "visit", "reported", "skipped"}) =>
         \A p \in Reachable :
             ReadTerminatorEffect(read_entry[p], body.term[p])
               = UNION { ReadBlockEffect(read_entry[t], t) : t \in Successors(p) }
    /\ WriteFixpoint =>
         \A t \in Reachable :
             /\ write_entry[t].tag = "Set"
             /\ write_entry[t].set =
                  { pl \in WrittenPlaces :
                      /\ t # START_BLOCK
                      /\ \A p \in Predecessors(t) \cap Reachable :
                           pl \in ReturnState(p).set }

C14_Witness ==
    /\ pc = "reported"
    /\ \E b \in Reachable :
         /\ body.term[b].kind = "Call"
         /\ body.term[b].destination \notin WrittenPlaces
         /\ body.term[b].destination \notin reads \cup must_writes \cup may_writes

\* C15: the MustPlaceSet join has Top (the variant All) as identity on both
\* sides, intersects concrete sets, is commutative, associative and
\* idempotent, and returns 'changed' exactly when the receiver's value changed.
C15_JoinLaws ==
    pc \in {"lattice", "joined", "applied"} =>
        LET x == must_self
            y == must_other
        IN /\ MustJoin(All, x).value = x
           /\ MustJoin(x, All).value = x
           /\ (x.tag = "Set" /\ y.tag = "Set")
                => MustJoin(x, y).value = Set(x.set \cap y.set)
           /\ MustJoin(x, y).value = MustJoin(y, x).value
           /\ \A z \in MustValues :
                MustJoin(MustJoin(x, y).value, z).value
                  = MustJoin(x, MustJoin(y, z).value).value
           /\ MustJoin(x, x).value = x
           /\ MustJoin(x, y).changed <=> (MustJoin(x, y).value # x)

C15_Witness ==
    /\ pc = "joined"
    /\ changed[1]
    /\ must_self.tag = "Set"
    /\ must_self.set # {}
    /\ must_self # must_other

\* the order of the Must lattice: Top (All) least, concrete sets by reverse
\* inclusion
MustLeq(x, y) ==
    \/ x.tag = "All"
    \/ y.tag = "Set" /\ y.set \subseteq x.set

\* C16: both per-assignment transfers are monotone: for Reads-Before-Write
\* S1 a subset of S2 gives f(S1) a subset of f(S2); for Must-Write x <= y
\* gives f(x) <= f(y), the transfer removes no place from a concrete set and
\* it maps Top to Top.
C16_TransfersMonotone ==
    pc \in {"lattice", "joined", "applied"} =>
        /\ may_self \subseteq may_other
             => ReadStatementEffect(may_self, assignment)
                  \subseteq ReadStatementEffect(may_other, assignment)
        /\ MustLeq(must_self, must_other)
             => MustLeq(WriteStatementEffect(must_self, assignment),
                        WriteStatementEffect(must_other, assignment))
        /\ must_self.tag = "Set"
             => /\ WriteStatementEffect(must_self, assignment).tag = "Set"
                /\ must_self.set \subseteq WriteStatementEffect(must_self, assignment).set
        /\ WriteStatementEffect(All, assignment) = All

C16_Witness ==
    /\ pc = "applied"
    /\ is_indirect_first_projection(assignment.place)
    /\ rvalue_to_places(assignment.rvalue) # << >>
    /\ may_self # may_other
    /\ may_self \subseteq may_other
    /\ must_self.tag = "All"
    /\ must_other.tag = "Set"
    /\ must_other.set # {assignment.place}

\* one step of the Must-Write iteration moves the value of a block only from
\* Top to a concrete set, or from a concrete set to a subset of it
MustWriteStepDescends ==
    (pc = "write" /\ pc' = "write") =>
        \A b \in Blocks :
            \/ write_entry'[b] = write_entry[b]
            \/ write_entry[b].tag = "All" /\ write_entry'[b].tag = "Set"
            \/ /\ write_entry[b].tag = "Set"
               /\ write_entry'[b].tag = "Set"
               /\ write_entry'[b].set \subseteq write_entry[b].set

\* C17: at the Must-Write fixpoint the entry value of a block is Top iff the
\* block is unreachable from the function entry, so every reachable block
\* (every reachable return too) holds a concrete set; and every step of the
\* iteration moves a block's value only from Top to a concrete set or from
\* a concrete set to a subset of it.
C17_TopIffUnreachable ==
    /\ [](WriteFixpoint =>
            /\ \A b \in Blocks : write_entry[b].tag = "All" <=> b \notin Reachable
            /\ \A b \in ReturnBlocks : ReturnState(b).tag = "Set")
    /\ [][MustWriteStepDescends]_vars

C17_Witness ==
    /\ pc = "reported"
    /\ Reachable # Blocks
    /\ \E b \in Reachable \ {START_BLOCK} :
         /\ write_entry[b].set # {}
         /\ \E p \in Predecessors(b) \cap Reachable :
              ReturnState(p).set # write_entry[b].set

====
